---- MODULE Spec2Model ----
(***************************************************************************)
(* Model of src/app.py: the blob generator (blob), the palette generator   *)
(* (make_palette, load_csv_palette) and the poster composition and         *)
(* rendering (draw_poster).                                                *)
(*                                                                         *)
(* Reals are fixed-point integers with One standing for 1.0.  The two      *)
(* process-global generators the code uses, Python's `random` and NumPy's  *)
(* `np.random`, are two separate generator states; each is a small         *)
(* congruential generator of RandMax states whose state s yields the       *)
(* uniform value s / RandMax in [0, 1).                                    *)
(*                                                                         *)
(* A path is kept in polar form: vertex j of blob() is                     *)
(* center + radii[j] * (cos a_j, sin a_j) with a_j = linspace(0, 2pi)[j],  *)
(* so a path is its centre and its sequence of radial distances; two       *)
(* paths equal in this form have equal vertices.                           *)
(***************************************************************************)
EXTENDS Integers, Sequences, FiniteSets, TLC

\* ---------------------------------------------------------------- bounds
MaxSeed == 1
MaxLayers == 2
\* blob()'s `points` (200 at src/app.py:17), scaled down
Points == 3
\* largest count k handed to make_palette under PaletteSpec
MaxK == 6

\* ---------------------------------------------------- program constants
\* make_palette(6, ...) in draw_poster
PaletteSize == 6
\* number of values random.random() / np.random.rand() can return
RandMax == 8
One == 100 * RandMax
\* x stands for x / 100
Pct(x) == x * RandMax

RngStates == 0 .. (RandMax - 1)
None == <<>>
Black == <<0, 0, 0>>

\* ------------------------------------------------------------ generators
\* the generator's transition on one draw (both modules are the same
\* algorithm; they differ in how a seed initialises the state)
NextState(s) == (5 * s + 3) % RandMax

RECURSIVE Advance(_, _)
Advance(s, n) == IF n = 0 THEN s ELSE Advance(NextState(s), n - 1)

PySeed(s) == (7 * s + 1) % RandMax
NpSeed(s) == (3 * s + 2) % RandMax

\* state of `random` after random.seed(seed), given the state before
\* (PyKeepState: the call does not seed it)
PyKeepState(s, old) == old
PyAfterSeed(s, old) == PySeed(s)

\* state of `np.random` after np.random.seed(seed), given the state before
\* (NpKeepState: the call does not seed it)
NpKeepState(s, old) == old
NpAfterSeed(s, old) == NpSeed(s)

\* random.uniform(a, b) = a + (b - a) * random(), with random() = u / RandMax
\* (UniformFromMax: the sum starts from b)
UniformFromMax(a, b, u) == b + ((b - a) * u) \div RandMax
Uniform(a, b, u) == a + ((b - a) * u) \div RandMax

\* random.random() scaled to fixed point
Random01(u) == (One * u) \div RandMax

\* index (from 1) random.choice picks in a sequence of n elements
\* (RandBelowOffByOne: one too far)
RandBelowOffByOne(n, u) == (u * n) \div RandMax + 2
RandBelow(n, u) == (u * n) \div RandMax + 1

\* ------------------------------------------------------------------ blob
\* radii = r * (1 + wobble * (np.random.rand(points) - 0.5)), one draw a point
RECURSIVE Radii(_, _, _, _)
Radii(r, w, st, n) ==
    IF n = 0 THEN <<>>
    ELSE <<(r * (One + (w * (2 * st - RandMax)) \div (2 * RandMax))) \div One>>
         \o Radii(r, w, NextState(st), n - 1)

\* blob(center, r, wobble): the path and the generator state it leaves
\* (BlobOneDraw: np.random.rand() called for one value only)
BlobOneDraw(c, r, w, st) ==
    [path |-> [center |-> c, radii |-> Radii(r, w, st, 1)],
     st |-> NextState(st)]
Blob(c, r, w, st) ==
    [path |-> [center |-> c, radii |-> Radii(r, w, st, Points)],
     st |-> Advance(st, Points)]

\* Path.transformed(Affine2D().translate(dx, dy)): a new path, moved
Transformed(path, dx, dy) ==
    [path EXCEPT !.center = <<path.center[1] + dx, path.center[2] + dy>>]

\* --------------------------------------------------------------- palette
\* palette.csv as written when absent: sky, sun, forest
DefaultTable ==
    << <<Pct(40), Pct(70), Pct(100)>>,
       <<Pct(100), Pct(80), Pct(20)>>,
       <<Pct(20), Pct(60), Pct(30)>> >>
\* contents palette.csv may have: no row, one row, the default rows
Tables == { <<>>, << <<Pct(50), Pct(50), Pct(50)>> >>, DefaultTable }

load_csv_palette(tbl) == tbl

\* matplotlib.colors.hsv_to_rgb on one colour
hsv_to_rgb(h, s, v) ==
    LET i == (6 * h) \div One
        f == 6 * h - i * One
        p == (v * (One - s)) \div One
        q == (v * (One - (s * f) \div One)) \div One
        t == (v * (One - (s * (One - f)) \div One)) \div One
        m == i % 6
    IN  IF s = 0 THEN <<v, v, v>>
        ELSE IF m = 0 THEN <<v, t, p>>
        ELSE IF m = 1 THEN <<q, v, p>>
        ELSE IF m = 2 THEN <<p, v, t>>
        ELSE IF m = 3 THEN <<p, q, v>>
        ELSE IF m = 4 THEN <<t, p, v>>
        ELSE <<v, p, q>>

\* one pass of make_palette's loop body: the colour and the state it leaves
\* (ColourPrefixMatch: pastel matched by prefix and without regard to case)
ColourPrefixMatch(mode, bh, st) ==
    LET s1 == NextState(st)
        s2 == NextState(s1)
    IN  IF mode \in {"pastel", "past", "Pastel"} THEN
            [col |-> hsv_to_rgb(Random01(st), Uniform(Pct(15), Pct(35), s1),
                                Uniform(Pct(90), Pct(100), s2)),
             st |-> NextState(s2)]
        ELSE IF mode = "vivid" THEN
            [col |-> hsv_to_rgb(Random01(st), Uniform(Pct(80), Pct(100), s1),
                                Uniform(Pct(80), Pct(100), s2)),
             st |-> NextState(s2)]
        ELSE IF mode = "mono" THEN
            [col |-> hsv_to_rgb(bh, Uniform(Pct(20), Pct(60), st),
                                Uniform(Pct(50), Pct(100), s1)),
             st |-> s2]
        ELSE
            [col |-> hsv_to_rgb(Random01(st), Uniform(Pct(30), Pct(100), s1),
                                Uniform(Pct(50), Pct(100), s2)),
             st |-> NextState(s2)]
Colour(mode, bh, st) ==
    LET s1 == NextState(st)
        s2 == NextState(s1)
    IN  IF mode = "pastel" THEN
            [col |-> hsv_to_rgb(Random01(st), Uniform(Pct(15), Pct(35), s1),
                                Uniform(Pct(90), Pct(100), s2)),
             st |-> NextState(s2)]
        ELSE IF mode = "vivid" THEN
            [col |-> hsv_to_rgb(Random01(st), Uniform(Pct(80), Pct(100), s1),
                                Uniform(Pct(80), Pct(100), s2)),
             st |-> NextState(s2)]
        ELSE IF mode = "mono" THEN
            [col |-> hsv_to_rgb(bh, Uniform(Pct(20), Pct(60), st),
                                Uniform(Pct(50), Pct(100), s1)),
             st |-> s2]
        ELSE
            [col |-> hsv_to_rgb(Random01(st), Uniform(Pct(30), Pct(100), s1),
                                Uniform(Pct(50), Pct(100), s2)),
             st |-> NextState(s2)]

\* the loop `for _ in range(k)`: the colours and the state it leaves
RECURSIVE Cols(_, _, _, _, _)
Cols(n, mode, bh, st, cols) ==
    IF n <= 0 THEN [cols |-> cols, st |-> st]
    ELSE LET c == Colour(mode, bh, st)
         IN  Cols(n - 1, mode, bh, c.st, Append(cols, c.col))

\* make_palette(k, mode, base_h) reading palette.csv = tbl
\* (make_palette_truncating: the table cut to k rows)
make_palette_truncating(n, mode, bh, st, tbl) ==
    IF mode = "csv"
    THEN [cols |-> SubSeq(load_csv_palette(tbl), 1, n), st |-> st]
    ELSE Cols(n, mode, bh, st, <<>>)
make_palette(n, mode, bh, st, tbl) ==
    IF mode = "csv" THEN [cols |-> load_csv_palette(tbl), st |-> st]
    ELSE Cols(n, mode, bh, st, <<>>)

\* ----------------------------------------------------------------- state
VARIABLES
    pc,                 \* where the process is: idle, or a place in draw_poster
    seed, n_layers, blob_radius_range, wobble_range, alpha_range,
    shadow_offset, palette_mode,     \* draw_poster's arguments
    k, base_h,          \* make_palette's arguments k and base_h
    pyState,            \* state of the global generator of module `random`
    npState,            \* state of the global generator of `np.random`
    table,              \* rows of palette.csv
    palette, blob_paths,             \* draw_poster's locals
    radius, wobble, center, alpha,   \* locals of the last loop iteration
    patches,            \* patches added to the axes, in add_patch order
    label,              \* the text drawn by ax.text
    py0,                \* state of `random` when make_palette was entered
    called,             \* whether a call of draw_poster has ended before
    last                \* arguments and layers of the call being repeated

params == <<seed, n_layers, blob_radius_range, wobble_range, alpha_range,
            shadow_offset, palette_mode>>
locals == <<palette, blob_paths, radius, wobble, center, alpha, patches, label>>
history == <<py0, called, last>>
vars == <<pc, params, k, base_h, pyState, npState, table, locals, history>>

\* ---------------------------------------------------------------- inputs
Seeds == 0 .. MaxSeed
LayerCounts == 0 .. MaxLayers
\* (0.1, 0.3); zero width; zero radius; min > max
RadiusRanges == { <<Pct(10), Pct(30)>>, <<Pct(20), Pct(20)>>, <<0, 0>>,
                  <<Pct(30), Pct(10)>> }
WobbleRanges == { <<Pct(5), Pct(25)>>, <<Pct(25), Pct(5)>> }
\* the last one leaves [0, 1]
AlphaRanges == { <<Pct(30), Pct(60)>>, <<Pct(60), Pct(60)>>,
                 <<Pct(60), Pct(20)>>, <<Pct(100), Pct(120)>> }
ShadowOffsets == { 0, Pct(2) }
\* the choices of the selectbox
PaletteModes == { "pastel", "vivid", "mono", "random", "csv" }
\* the mode names of the interface description, and near misses
OtherModes == { "external", "Pastel", "past" }
\* base_h's default
DefaultBaseH == Pct(60)

\* ------------------------------------------------------------ draw_poster
\* `for _ in range(n_layers)`: whether another iteration follows
\* (MoreLayersOffByOne: range(n_layers - 1))
MoreLayersOffByOne(done, n) == done < n - 1
MoreLayers(done, n) == done < n

\* one iteration of the composition loop from generator states py, np:
\* the values it samples, whether random.choice finds an element, the
\* layer it appends and the generator states it leaves
LayerStep(py, np, pal, rr, wr, ar) ==
    LET p1 == NextState(py)
        p2 == NextState(p1)
        p3 == NextState(p2)
        p4 == NextState(p3)
        p5 == NextState(p4)
        r == Uniform(rr[1], rr[2], py)
        w == Uniform(wr[1], wr[2], p1)
        c == <<Uniform(Pct(5), Pct(95), p2), Uniform(Pct(5), Pct(95), p3)>>
        b == Blob(c, r, w, np)
        idx == RandBelow(Len(pal), p4)
        ok == idx \in 1 .. Len(pal)
        a == Uniform(ar[1], ar[2], p5)
    IN  [radius |-> r, wobble |-> w, center |-> c, ok |-> ok,
         layer |-> [path |-> b.path,
                    color |-> IF ok THEN pal[idx] ELSE None,
                    alpha |-> a],
         alpha |-> a,
         py |-> IF ok THEN NextState(p5) ELSE p4,
         np |-> b.st]

\* the layer the j-th iteration of `for path, color, alpha in blob_paths` sees
\* (DrawnLayerReversed: the list walked from its end)
DrawnLayerReversed(paths, j) == paths[Len(paths) + 1 - j]
DrawnLayer(paths, j) == paths[j]

\* alpha = alpha * 0.15 of the shadow patch
\* (ShadowAlphaUnscaled: the factor left out)
ShadowAlphaUnscaled(a) == a
ShadowAlpha(a) == (a * 15) \div 100

\* Artist.set_alpha raises ValueError outside 0..1
AlphaRaises(a) == a < 0 \/ a > One

ShadowPatch(l, off) ==
    [path |-> Transformed(l.path, off, 0 - off), facecolor |-> Black,
     alpha |-> ShadowAlpha(l.alpha), zorder |-> 0 - 2]
FillPatch(l) ==
    [path |-> l.path, facecolor |-> l.color, alpha |-> l.alpha,
     zorder |-> 0 - 1]

NoLocals ==
    /\ palette = <<>> /\ blob_paths = <<>> /\ patches = <<>> /\ label = None
    /\ radius = 0 /\ wobble = 0 /\ center = <<0, 0>> /\ alpha = 0
NoParams ==
    /\ seed = 0 /\ n_layers = 0 /\ blob_radius_range = <<0, 0>>
    /\ wobble_range = <<0, 0>> /\ alpha_range = <<0, 0>>
    /\ shadow_offset = 0 /\ palette_mode = "" /\ k = 0 /\ base_h = 0

Init ==
    /\ pc = "idle"
    /\ NoParams /\ NoLocals
    /\ pyState \in RngStates /\ npState \in RngStates
    /\ table \in Tables
    /\ py0 = 0 /\ called = FALSE /\ last = None

\* the button calls draw_poster(...), which starts with
\* random.seed(seed); np.random.seed(seed)
Call ==
    /\ pc = "idle" /\ last = None
    /\ seed' \in Seeds
    /\ n_layers' \in LayerCounts
    /\ blob_radius_range' \in RadiusRanges
    /\ wobble_range' \in WobbleRanges
    /\ alpha_range' \in AlphaRanges
    /\ shadow_offset' \in ShadowOffsets
    /\ palette_mode' \in PaletteModes
    /\ k' = PaletteSize /\ base_h' = DefaultBaseH
    /\ pyState' = PyAfterSeed(seed', pyState)
    /\ npState' = NpAfterSeed(seed', npState)
    /\ pc' = "palette"
    /\ UNCHANGED <<table, locals, history>>

\* the same call once more, with the arguments of the call before
CallAgain ==
    /\ pc = "idle" /\ last # None
    /\ seed' = last.params[1] /\ n_layers' = last.params[2]
    /\ blob_radius_range' = last.params[3] /\ wobble_range' = last.params[4]
    /\ alpha_range' = last.params[5] /\ shadow_offset' = last.params[6]
    /\ palette_mode' = last.params[7]
    /\ k' = PaletteSize /\ base_h' = DefaultBaseH
    /\ pyState' = PyAfterSeed(seed', pyState)
    /\ npState' = NpAfterSeed(seed', npState)
    /\ pc' = "palette"
    /\ UNCHANGED <<table, locals, history>>

\* palette = make_palette(6, mode=palette_mode); fig, ax = plt.subplots();
\* blob_paths = []
MakePalette ==
    /\ pc = "palette"
    /\ LET pal == make_palette(k, palette_mode, base_h, pyState, table)
       IN  /\ palette' = pal.cols
           /\ pyState' = pal.st
    /\ py0' = pyState
    /\ blob_paths' = <<>> /\ patches' = <<>> /\ label' = None
    /\ pc' = "compose"
    /\ UNCHANGED <<params, k, base_h, npState, table, radius, wobble, center,
                   alpha, called, last>>

\* one iteration of the composition loop that appends its layer
ComposeLayer ==
    /\ pc = "compose"
    /\ MoreLayers(Len(blob_paths), n_layers)
    /\ LET s == LayerStep(pyState, npState, palette, blob_radius_range,
                          wobble_range, alpha_range)
       IN  /\ s.ok
           /\ radius' = s.radius /\ wobble' = s.wobble /\ center' = s.center
           /\ alpha' = s.alpha
           /\ blob_paths' = Append(blob_paths, s.layer)
           /\ pyState' = s.py /\ npState' = s.np
    /\ UNCHANGED <<pc, params, k, base_h, table, palette, patches, label, history>>

\* the iteration in which random.choice(palette) raises IndexError
FailChoice ==
    /\ pc = "compose"
    /\ MoreLayers(Len(blob_paths), n_layers)
    /\ LET s == LayerStep(pyState, npState, palette, blob_radius_range,
                          wobble_range, alpha_range)
       IN  /\ ~s.ok
           /\ radius' = s.radius /\ wobble' = s.wobble /\ center' = s.center
           /\ pyState' = s.py /\ npState' = s.np
    /\ pc' = "error"
    /\ UNCHANGED <<params, k, base_h, table, palette, blob_paths, alpha,
                   patches, label, history>>

\* the composition loop ends
ComposeDone ==
    /\ pc = "compose"
    /\ ~MoreLayers(Len(blob_paths), n_layers)
    /\ pc' = "shadows"
    /\ UNCHANGED <<params, k, base_h, pyState, npState, table, locals, history>>

\* one iteration of the shadow loop
DrawShadow ==
    /\ pc = "shadows"
    /\ Len(patches) < Len(blob_paths)
    /\ LET l == DrawnLayer(blob_paths, Len(patches) + 1)
       IN  /\ ~AlphaRaises(ShadowAlpha(l.alpha))
           /\ patches' = Append(patches, ShadowPatch(l, shadow_offset))
    /\ UNCHANGED <<pc, params, k, base_h, pyState, npState, table, palette,
                   blob_paths, radius, wobble, center, alpha, label, history>>

ShadowsDone ==
    /\ pc = "shadows"
    /\ Len(patches) = Len(blob_paths)
    /\ pc' = "fills"
    /\ UNCHANGED <<params, k, base_h, pyState, npState, table, locals, history>>

\* one iteration of the fill loop
DrawBlob ==
    /\ pc = "fills"
    /\ Len(patches) < 2 * Len(blob_paths)
    /\ LET l == DrawnLayer(blob_paths, Len(patches) - Len(blob_paths) + 1)
       IN  /\ ~AlphaRaises(l.alpha)
           /\ patches' = Append(patches, FillPatch(l))
    /\ UNCHANGED <<pc, params, k, base_h, pyState, npState, table, palette,
                   blob_paths, radius, wobble, center, alpha, label, history>>

\* the alpha the next PathPatch(...) is built with
NextPatchAlpha ==
    IF pc = "shadows"
    THEN ShadowAlpha(DrawnLayer(blob_paths, Len(patches) + 1).alpha)
    ELSE DrawnLayer(blob_paths, Len(patches) - Len(blob_paths) + 1).alpha

\* PathPatch(..., alpha=...) raises ValueError
FailPatch ==
    /\ pc \in {"shadows", "fills"}
    /\ Len(patches) < (IF pc = "shadows" THEN 1 ELSE 2) * Len(blob_paths)
    /\ AlphaRaises(NextPatchAlpha)
    /\ pc' = "error"
    /\ UNCHANGED <<params, k, base_h, pyState, npState, table, locals, history>>

FillsDone ==
    /\ pc = "fills"
    /\ Len(patches) = 2 * Len(blob_paths)
    /\ pc' = "label"
    /\ UNCHANGED <<params, k, base_h, pyState, npState, table, locals, history>>

\* ax.text(...); st.pyplot(fig)
DrawLabel ==
    /\ pc = "label"
    /\ label' = <<"Interactive Poster", palette_mode>>
    /\ pc' = "done"
    /\ UNCHANGED <<params, k, base_h, pyState, npState, table, palette,
                   blob_paths, radius, wobble, center, alpha, patches, history>>

\* draw_poster returns, or its exception ends the script run: the locals
\* are gone, the generators of the process keep their states
Return ==
    /\ pc \in {"done", "error"}
    /\ pc' = "idle"
    /\ \/ last' = None
       \/ /\ pc = "done"
          /\ last' = [params |-> params, layers |-> blob_paths]
    /\ seed' = 0 /\ n_layers' = 0 /\ blob_radius_range' = <<0, 0>>
    /\ wobble_range' = <<0, 0>> /\ alpha_range' = <<0, 0>>
    /\ shadow_offset' = 0 /\ palette_mode' = "" /\ k' = 0 /\ base_h' = 0
    /\ palette' = <<>> /\ blob_paths' = <<>> /\ patches' = <<>>
    /\ label' = None
    /\ radius' = 0 /\ wobble' = 0 /\ center' = <<0, 0>> /\ alpha' = 0
    /\ called' = TRUE
    /\ UNCHANGED <<pyState, npState, table, py0>>

Next ==
    \/ Call \/ CallAgain \/ MakePalette
    \/ ComposeLayer \/ FailChoice \/ ComposeDone
    \/ DrawShadow \/ ShadowsDone \/ DrawBlob \/ FailPatch \/ FillsDone
    \/ DrawLabel \/ Return

Spec == Init /\ [][Next]_vars

\* ------------------------------------------------- make_palette on its own
PaletteInit ==
    /\ pc = "palette_call"
    /\ k \in 0 .. MaxK
    /\ palette_mode \in PaletteModes \cup OtherModes
    /\ base_h \in {0, DefaultBaseH}
    /\ pyState \in RngStates /\ npState = 0
    /\ table \in Tables
    /\ seed = 0 /\ n_layers = 0 /\ blob_radius_range = <<0, 0>>
    /\ wobble_range = <<0, 0>> /\ alpha_range = <<0, 0>> /\ shadow_offset = 0
    /\ NoLocals
    /\ py0 = pyState /\ called = FALSE /\ last = None

\* palette = make_palette(k, mode, base_h)
CallMakePalette ==
    /\ pc = "palette_call"
    /\ LET pal == make_palette(k, palette_mode, base_h, pyState, table)
       IN  /\ palette' = pal.cols
           /\ pyState' = pal.st
    /\ pc' = "palette_done"
    /\ UNCHANGED <<params, k, base_h, npState, table, blob_paths, radius,
                   wobble, center, alpha, patches, label, history>>

PaletteNext == CallMakePalette

PaletteSpec == PaletteInit /\ [][PaletteNext]_vars

\* ================================================================= claims
CallPcs == {"palette", "compose", "shadows", "fills", "label", "done", "error"}
\* the places of a call whose composition loop has ended normally
ComposedPcs == {"shadows", "fills", "label", "done"}
\* the call stopped inside the composition loop
ComposeFailed == pc = "error" /\ Len(blob_paths) < n_layers

\* the layers a call with the current arguments composes when the two
\* generators are in states p0 and n0 at its start
RECURSIVE ComposeFrom(_, _, _, _)
ComposeFrom(py, np, pal, sofar) ==
    IF ~(Len(sofar) < n_layers) THEN sofar
    ELSE LET s == LayerStep(py, np, pal, blob_radius_range, wobble_range,
                            alpha_range)
         IN  IF ~s.ok THEN sofar
             ELSE ComposeFrom(s.py, s.np, pal, Append(sofar, s.layer))
LayersOfCallFrom(p0, n0) ==
    LET pal == make_palette(PaletteSize, palette_mode, DefaultBaseH,
                            PyAfterSeed(seed, p0), table)
    IN  ComposeFrom(pal.st, NpAfterSeed(seed, n0), pal.cols, <<>>)

\* C1  Determinism: a call repeated with the same seed, the same other
\* arguments and the same palette.csv composes the same layer sequence as
\* the call before it, shape by shape, colour by colour, opacity by opacity.
C1_Determinism ==
    (last # None /\ pc \in ComposedPcs)
        => (params = last.params /\ blob_paths = last.layers)
C1_Witness ==
    /\ last # None /\ pc = "done" /\ seed = 0 /\ palette_mode = "mono"
    /\ Len(blob_paths) >= 2
    /\ blob_radius_range = <<Pct(10), Pct(30)>>
    /\ wobble_range = <<Pct(5), Pct(25)>>
    /\ alpha_range = <<Pct(30), Pct(60)>>
    /\ blob_paths[1] # blob_paths[2]

\* C2  Layer count: when the composition loop has ended, blob_paths holds
\* exactly n_layers entries; n_layers = 0 gives the empty sequence.
C2_LayerCount ==
    pc \in ComposedPcs
        => /\ Len(blob_paths) = n_layers
           /\ n_layers = 0 => blob_paths = <<>>
C2_Witness == pc = "shadows" /\ n_layers >= 2 /\ Len(blob_paths) = n_layers

\* C3  Two-pass order: the patches added so far are first the shadows, then
\* the fills; no fill is added while the shadow pass runs; the q-th shadow
\* is the shadow of layer q and the q-th fill is the fill of layer q.
C3_TwoPassOrder ==
    /\ pc = "shadows" => Len(patches) <= Len(blob_paths)
    /\ \A q \in 1 .. Len(patches) :
        IF q <= Len(blob_paths)
        THEN /\ patches[q].zorder = 0 - 2
             /\ patches[q].path =
                    Transformed(blob_paths[q].path, shadow_offset,
                                0 - shadow_offset)
        ELSE /\ patches[q].zorder = 0 - 1
             /\ q <= 2 * Len(blob_paths)
             /\ patches[q].path = blob_paths[q - Len(blob_paths)].path
C3_Witness ==
    /\ pc = "fills" /\ Len(blob_paths) >= 2
    /\ Len(patches) = 2 * Len(blob_paths)
    /\ blob_paths[1].path # blob_paths[2].path
    /\ shadow_offset > 0

\* C5  Range respect: with min <= max, the radius and the wobble sampled in
\* the last iteration and the opacity of every layer lie in their ranges,
\* end points included.
InRange(x, range) == range[1] <= range[2] => (range[1] <= x /\ x <= range[2])
C5_RangeRespect ==
    /\ (blob_paths # <<>> \/ ComposeFailed)
        => InRange(radius, blob_radius_range) /\ InRange(wobble, wobble_range)
    /\ blob_paths # <<>> => alpha = blob_paths[Len(blob_paths)].alpha
    /\ \A i \in 1 .. Len(blob_paths) : InRange(blob_paths[i].alpha, alpha_range)
C5_Witness ==
    /\ pc = "done" /\ Len(blob_paths) >= 2
    /\ blob_radius_range[1] < radius /\ radius < blob_radius_range[2]
    /\ wobble_range[1] < wobble /\ wobble < wobble_range[2]
    /\ alpha_range[1] < alpha /\ alpha < alpha_range[2]

\* C6  No failure on edge inputs: a call whose palette.csv has a row (when
\* it is read) and whose opacity range lies in 0..1 never reaches the error
\* state, whatever the layer count and the ranges (zero layers, zero width,
\* zero radius, min > max); while it runs it has a next step, and every
\* step leaves fewer steps to take, so the call ends; with n_layers = 0 it
\* ends with no patch and with the label drawn.
Progress ==
    \/ ComposeLayer \/ ComposeDone \/ DrawShadow \/ ShadowsDone
    \/ DrawBlob \/ FillsDone \/ DrawLabel
\* an upper bound of the steps a call has left
StepsLeft ==
    (n_layers - Len(blob_paths)) + (2 * n_layers - Len(patches))
    + (CASE pc = "palette" -> 5 [] pc = "compose" -> 4 [] pc = "shadows" -> 3
         [] pc = "fills" -> 2 [] pc = "label" -> 1 [] OTHER -> 0)
TableUsable == palette_mode = "csv" => table # <<>>
AlphaRangeUsable ==
    /\ 0 <= alpha_range[1] /\ alpha_range[1] <= One
    /\ 0 <= alpha_range[2] /\ alpha_range[2] <= One
C6_Safe ==
    /\ (TableUsable /\ AlphaRangeUsable) => pc # "error"
    /\ (pc \in {"compose", "shadows", "fills", "label"} /\ TableUsable
            /\ AlphaRangeUsable)
        => ENABLED Progress
    /\ (pc = "done" /\ n_layers = 0)
        => patches = <<>> /\ label = <<"Interactive Poster", palette_mode>>
    /\ pc \in CallPcs => StepsLeft >= 0
C6_NoFailure ==
    /\ []C6_Safe
    /\ [][(pc \in CallPcs /\ pc' \in CallPcs) => (StepsLeft' < StepsLeft)]_vars
C6_Witness ==
    /\ pc = "done" /\ n_layers >= 2 /\ Len(patches) = 2 * n_layers
    /\ blob_radius_range = <<0, 0>>
    /\ wobble_range[1] > wobble_range[2]
    /\ alpha_range[1] > alpha_range[2]
    /\ palette_mode = "csv"

\* C7 as stated: every draw of a call comes from one generator, so no step
\* of a call changes the state of the other one.
C7_SingleStream == [][(pc \in CallPcs) => (npState' = npState)]_vars

\* C7 as amended: the draws of a call come from two generators, both seeded
\* from seed when the call starts: `random` gives the palette colours and,
\* for each layer, radius, wobble, centre, colour index and opacity (six
\* draws); `np.random` gives the Points per-point values of each blob.
PaletteDraws ==
    IF palette_mode = "csv" THEN 0
    ELSE IF palette_mode = "mono" THEN 2 * k ELSE 3 * k
C7_TwoSeededStreams ==
    /\ pc = "palette" => pyState = PySeed(seed) /\ npState = NpSeed(seed)
    /\ pc \in CallPcs \ {"palette"} =>
        /\ pyState = Advance(PySeed(seed),
                             PaletteDraws + 6 * Len(blob_paths)
                                 + (IF ComposeFailed THEN 4 ELSE 0))
        /\ npState = Advance(NpSeed(seed),
                             Points * (Len(blob_paths)
                                 + (IF ComposeFailed THEN 1 ELSE 0)))
C7_Witness ==
    /\ pc = "done" /\ Len(blob_paths) >= 1
    /\ npState # NpSeed(seed) /\ pyState # PySeed(seed)
    /\ palette_mode = "vivid"

\* C9  Per-layer render content: at the end there are 2 * n_layers patches;
\* the shadow of layer i is its shape moved by (+shadow_offset,
\* -shadow_offset), black, with 0.15 times its opacity (to the fixed-point
\* unit); the fill of layer i is its shape, its colour and its opacity; the
\* two drawing passes leave blob_paths unchanged.
C9_Content ==
    /\ pc \in {"label", "done"} => Len(patches) = 2 * n_layers
    /\ \A i \in 1 .. Len(blob_paths) :
        /\ i <= Len(patches) =>
            /\ patches[i].facecolor = <<0, 0, 0>>
            /\ patches[i].path.radii = blob_paths[i].path.radii
            /\ patches[i].path.center[1]
                   = blob_paths[i].path.center[1] + shadow_offset
            /\ patches[i].path.center[2]
                   = blob_paths[i].path.center[2] - shadow_offset
            /\ 100 * patches[i].alpha <= 15 * blob_paths[i].alpha
            /\ 15 * blob_paths[i].alpha < 100 * patches[i].alpha + 100
        /\ Len(blob_paths) + i <= Len(patches) =>
            LET f == patches[Len(blob_paths) + i]
            IN  /\ f.path = blob_paths[i].path
                /\ f.facecolor = blob_paths[i].color
                /\ f.alpha = blob_paths[i].alpha
C9_RenderContent ==
    /\ []C9_Content
    /\ [][(pc \in {"shadows", "fills", "label"})
            => (blob_paths' = blob_paths)]_vars
C9_Witness ==
    /\ pc = "done" /\ n_layers >= 2 /\ Len(patches) = 2 * n_layers
    /\ shadow_offset > 0
    /\ blob_paths[1].alpha # blob_paths[2].alpha
    /\ blob_paths[1].color # blob_paths[2].color

\* C10  History independence: whatever calls came before, a finished call
\* has composed the layers the same call composes in a process that has
\* made no call yet, whatever states its two generators start in.
C10_HistoryIndependence ==
    pc = "done" =>
        \A p0 \in RngStates, n0 \in RngStates :
            blob_paths = LayersOfCallFrom(p0, n0)
C10_Witness ==
    /\ called /\ last = None /\ pc = "done" /\ Len(blob_paths) >= 2
    /\ palette_mode = "pastel"
    /\ blob_paths[1].path.radii # blob_paths[2].path.radii

\* ----------------------------------------------- claims about make_palette
\* the colours the random policy gives: hue uniform in [0, 1), saturation
\* uniform in [0.3, 1.0], value uniform in [0.5, 1.0], a draw each
RECURSIVE RandomPolicyPalette(_, _)
RandomPolicyPalette(n, st) ==
    IF n <= 0 THEN <<>>
    ELSE LET s1 == NextState(st)
             s2 == NextState(s1)
             h == (One * st) \div RandMax
             s == Pct(30) + ((Pct(100) - Pct(30)) * s1) \div RandMax
             v == Pct(50) + ((Pct(100) - Pct(50)) * s2) \div RandMax
         IN  <<hsv_to_rgb(h, s, v)>> \o RandomPolicyPalette(n - 1, NextState(s2))

\* C4 as stated: k colours for pastel, vivid, mono, random; the table, as
\* stored, for mode "external".
C4_PaletteSizeExternal ==
    pc = "palette_done" =>
        /\ palette_mode \in {"pastel", "vivid", "mono", "random"}
            => Len(palette) = k
        /\ palette_mode = "external" => palette = table

\* C4 as amended: k colours for pastel, vivid, mono, random; the table, as
\* stored and whatever k is, for the mode the code spells "csv".
C4_PaletteSize ==
    pc = "palette_done" =>
        /\ palette_mode \in {"pastel", "vivid", "mono", "random"}
            => Len(palette) = k
        /\ palette_mode = "csv" => palette = table /\ pyState = py0
C4_Witness ==
    /\ pc = "palette_done" /\ palette_mode = "csv"
    /\ Len(table) = 3 /\ k = 6 /\ palette = table

\* C8 as stated: a mode outside {pastel, vivid, mono, random, external} gets
\* k colours of the random policy.
C8_DispatchExternal ==
    (pc = "palette_done"
     /\ palette_mode \notin {"pastel", "vivid", "mono", "random", "external"})
        => palette = RandomPolicyPalette(k, py0)

\* C8 as amended: the mode is compared, exactly, with pastel, vivid, mono
\* and csv; every other value (random, external, Pastel, past) gets k
\* colours of the random policy.
C8_Dispatch ==
    (pc = "palette_done"
     /\ palette_mode \notin {"pastel", "vivid", "mono", "csv"})
        => /\ palette = RandomPolicyPalette(k, py0)
           /\ Len(palette) = k
C8_Witness ==
    /\ pc = "palette_done" /\ palette_mode = "Pastel" /\ k >= 2
    /\ palette[1] # palette[2]

====
